---- MODULE Spec2Model ----
(***************************************************************************)
(* A model of Kayak's matrix operations (kayak/matrix_ops.py): the nodes   *)
(* MatMult, MatSum, MatAdd, Transpose and Reshape of a reverse-mode        *)
(* automatic-differentiation graph.                                        *)
(*                                                                         *)
(* Nodes live in an arena: a node's identity is its index in `nodes`, and  *)
(* Python's `other == self.A` (object identity, no __eq__ is defined) is   *)
(* equality of indices.  Python tuples are sequences.  An optional         *)
(* argument is a sequence: None is <<>> and a value x is <<x>>.            *)
(* A Python result is a record [tag, v]: tag "ok" with the value v, tag    *)
(* "None" for the value None, or the name of the exception raised.         *)
(* An array argument or result is a record [tag, shape, data]:             *)
(*   "ok"      a numeric array, data in row-major order;                   *)
(*   "None"    the Python value None;                                      *)
(*   "object"  a numpy array of dtype object whose every element is None   *)
(*             (what numpy makes of None), or that has no element at all,  *)
(*             with its shape and data <<>>;                               *)
(*   "objnum"  a numpy array of dtype object whose elements are numbers,   *)
(*             with at least one element;                                  *)
(*   "number"  a Python number that is not an array (shape <<>>);          *)
(* any other tag names the exception raised.                               *)
(***************************************************************************)
EXTENDS Integers, Sequences, FiniteSets, TLC

VARIABLES nodes, cache, done

vars == <<nodes, cache, done>>

\* done = <<the name of the last call, the record of it>>
call == done[1]
last == done[2]

(***************************************************************************)
(* Python values.                                                          *)
(***************************************************************************)
None == <<>>
Some(x) == <<x>>

Ok(v) == [tag |-> "ok", v |-> v]
PyNone == [tag |-> "None", v |-> <<>>]
Raise(e) == [tag |-> e, v |-> <<>>]
IsOk(r) == r.tag = "ok"

Arr(s, d) == [tag |-> "ok", shape |-> s, data |-> d]
ArrRaise(e) == [tag |-> e, shape |-> <<>>, data |-> <<>>]

\* the argument None
ArrNone == [tag |-> "None", shape |-> <<>>, data |-> <<>>]

\* a is an exception raised, not a value
IsExc(a) == a.tag \notin {"ok", "None", "object", "objnum", "number"}

\* x[ii] on a tuple: negative indices count from the end, others raise IndexError
PyIndex(t, ii) ==
    IF ii >= 0 /\ ii < Len(t) THEN Ok(t[ii + 1])
    ELSE IF ii < 0 /\ -ii <= Len(t) THEN Ok(t[Len(t) + ii + 1])
    ELSE Raise("IndexError")

Reverse(t) == [i \in 1..Len(t) |-> t[Len(t) + 1 - i]]

RECURSIVE Prod(_)
Prod(s) == IF s = <<>> THEN 1 ELSE Head(s) * Prod(Tail(s))

RECURSIVE SumSeq(_)
SumSeq(s) == IF s = <<>> THEN 0 ELSE Head(s) + SumSeq(Tail(s))

\* the multi-index (0-based) of the flat 0-based position i in an array of shape s
RECURSIVE Unravel(_, _)
Unravel(i, s) ==
    IF s = <<>> THEN <<>>
    ELSE LET r == Prod(Tail(s)) IN <<i \div r>> \o Unravel(i % r, Tail(s))

RECURSIVE Ravel(_, _)
Ravel(idx, s) ==
    IF s = <<>> THEN 0
    ELSE Head(idx) * Prod(Tail(s)) + Ravel(Tail(idx), Tail(s))

\* the subsequence of t at the positions (1-based) not in drop
RECURSIVE DropAt(_, _, _)
DropAt(t, drop, k) ==
    IF k > Len(t) THEN <<>>
    ELSE (IF k \in drop THEN <<>> ELSE <<t[k]>>) \o DropAt(t, drop, k + 1)

(***************************************************************************)
(* numpy.                                                                  *)
(***************************************************************************)
\* an array of dtype object and shape s, every element of it None
ObjArr(s) == [tag |-> "object", shape |-> s, data |-> <<>>]

\* an array of dtype object and shape s that holds the numbers d
ObjNum(s, d) == IF Prod(s) = 0 THEN ObjArr(s) ELSE [tag |-> "objnum", shape |-> s, data |-> d]

\* np.asarray(a), which numpy applies to its arguments: None becomes an
\* object array of shape () holding None, a number a numeric array of shape ()
np_asarray(a) ==
    IF a.tag = "None" THEN ObjArr(<<>>)
    ELSE IF a.tag = "number" THEN Arr(<<>>, a.data)
    ELSE a

\* what numpy returns for the result a of a reduction, of arithmetic or of
\* np.dot: an object array of shape () is returned as the Python object it
\* holds
Unwrapped(a) ==
    IF a.shape # <<>> \/ a.tag = "ok" THEN a
    ELSE IF a.tag = "object" THEN ArrNone
    ELSE [tag |-> "number", shape |-> <<>>, data |-> a.data]

\* the array of shape s that has a's elements in a's order
Shaped(a, s) == [a EXCEPT !.shape = s]

\* np.zeros(s), np.ones(s): a negative dimension raises ValueError
np_zeros(s) ==
    IF \E i \in 1..Len(s) : s[i] < 0 THEN ArrRaise("ValueError")
    ELSE Arr(s, [i \in 1..Prod(s) |-> 0])

np_ones(s) ==
    IF \E i \in 1..Len(s) : s[i] < 0 THEN ArrRaise("ValueError")
    ELSE Arr(s, [i \in 1..Prod(s) |-> 1])

np_atleast_1d(a) ==
    IF IsExc(a) THEN a
    ELSE IF np_asarray(a).shape = <<>> THEN Shaped(np_asarray(a), <<1>>)
    ELSE a

\* the product of the dimensions of s that are given (not negative)
RECURSIVE KnownProd(_)
KnownProd(s) ==
    IF s = <<>> THEN 1
    ELSE (IF Head(s) < 0 THEN 1 ELSE Head(s)) * KnownProd(Tail(s))

\* the shape np.reshape gives an array of `size` elements for the argument s:
\* one dimension may be negative (-1) and is inferred from the others
ReshapeShape(size, s) ==
    LET unknown == {i \in 1..Len(s) : s[i] < 0}
        known == KnownProd(s)
    IN IF Cardinality(unknown) > 1 THEN Raise("ValueError")
       ELSE IF unknown = {}
       THEN (IF known = size THEN Ok(s) ELSE Raise("ValueError"))
       ELSE IF known = 0 \/ size % known # 0 THEN Raise("ValueError")
       ELSE Ok([i \in 1..Len(s) |-> IF s[i] < 0 THEN size \div known ELSE s[i]])

\* np.reshape(a, s)
np_reshape(a, s) ==
    IF IsExc(a) THEN a
    ELSE LET r == ReshapeShape(Prod(np_asarray(a).shape), s) IN
         IF IsOk(r) THEN Shaped(np_asarray(a), r.v) ELSE ArrRaise(r.tag)

\* a.reshape(s), the method: None and a Python number have no such attribute
ndarray_reshape(a, s) ==
    IF a.tag \in {"None", "number"} THEN ArrRaise("AttributeError")
    ELSE np_reshape(a, s)

\* numpy's broadcast of two shapes, aligned at the trailing dimension
NpBroadcastShape(s1, s2) ==
    LET n == IF Len(s1) > Len(s2) THEN Len(s1) ELSE Len(s2)
        p1 == [i \in 1..n |-> IF i > n - Len(s1) THEN s1[i - (n - Len(s1))] ELSE 1]
        p2 == [i \in 1..n |-> IF i > n - Len(s2) THEN s2[i - (n - Len(s2))] ELSE 1]
    IN IF \A i \in 1..n : p1[i] = p2[i] \/ p1[i] = 1 \/ p2[i] = 1
       THEN Ok([i \in 1..n |-> IF p1[i] = 1 THEN p2[i] ELSE p1[i]])
       ELSE Raise("ValueError")

\* the element of a that broadcasting places at the multi-index idx of shape s
BroadcastAt(a, idx, s) ==
    LET off == Len(s) - Len(a.shape)
        ai == [i \in 1..Len(a.shape) |-> IF a.shape[i] = 1 THEN 0 ELSE idx[i + off]]
    IN a.data[Ravel(ai, a.shape) + 1]

\* the result of arithmetic on the arrays a and b that has shape s and, when
\* every element is a number, the data d: with an operand of dtype object the
\* result has dtype object, and as soon as there is an element to compute, an
\* operand that holds None raises TypeError; an object result of shape () is
\* returned as the number it holds
Arith(a, b, s, d) ==
    IF a.tag = "ok" /\ b.tag = "ok" THEN Arr(s, d)
    ELSE IF Prod(s) = 0 THEN ObjArr(s)
    ELSE IF a.tag = "object" \/ b.tag = "object" THEN ArrRaise("TypeError")
    ELSE Unwrapped(ObjNum(s, d))

\* a + b on arrays
Add(a, b) ==
    LET s == NpBroadcastShape(a.shape, b.shape) IN
    IF ~IsOk(s) THEN ArrRaise(s.tag)
    ELSE Arith(a, b, s.v, [i \in 1..Prod(s.v) |->
                  BroadcastAt(a, Unravel(i - 1, s.v), s.v)
                + BroadcastAt(b, Unravel(i - 1, s.v), s.v)])

\* a * b on arrays
Multiply(a, b) ==
    LET s == NpBroadcastShape(a.shape, b.shape) IN
    IF ~IsOk(s) THEN ArrRaise(s.tag)
    ELSE Arith(a, b, s.v, [i \in 1..Prod(s.v) |->
                  BroadcastAt(a, Unravel(i - 1, s.v), s.v)
                * BroadcastAt(b, Unravel(i - 1, s.v), s.v)])

\* a + b
np_add(a, b) ==
    IF IsExc(a) THEN a
    ELSE IF IsExc(b) THEN b
    ELSE Add(np_asarray(a), np_asarray(b))

\* a * b
np_multiply(a, b) ==
    IF IsExc(a) THEN a
    ELSE IF IsExc(b) THEN b
    ELSE Multiply(np_asarray(a), np_asarray(b))

\* the sum of the array a over the axes in `axes` (0-based, distinct, in
\* range), which are removed; the empty tuple sums over no axis.  An object
\* array is summed by adding its elements: an axis of length 1 adds nothing,
\* an axis of length 0 gives the number 0, and adding None raises TypeError.
SumAxes(a, axes) ==
    LET drop == {axes[k] + 1 : k \in 1..Len(axes)}
        s == DropAt(a.shape, drop, 1)
        d == [j \in 1..Prod(s) |->
                SumSeq([i \in 1..Prod(a.shape) |->
                    IF DropAt(Unravel(i - 1, a.shape), drop, 1) = Unravel(j - 1, s)
                    THEN a.data[i] ELSE 0])]
    IN IF a.tag # "object" THEN Unwrapped([tag |-> a.tag, shape |-> s, data |-> d])
       ELSE IF Prod(s) = 0 THEN ObjArr(s)
       ELSE IF \E i \in drop : a.shape[i] = 0
       THEN Unwrapped(ObjNum(s, [j \in 1..Prod(s) |-> 0]))
       ELSE IF \A i \in drop : a.shape[i] = 1 THEN Unwrapped(ObjArr(s))
       ELSE ArrRaise("TypeError")

\* np.sum(a, axis=axes) for a tuple of distinct axes (0-based); an axis out
\* of range raises ValueError (AxisError)
np_sum_axes(a, axes) ==
    IF IsExc(a) THEN a
    ELSE IF \E k \in 1..Len(axes) : axes[k] >= Len(np_asarray(a).shape)
    THEN ArrRaise("ValueError")
    ELSE SumAxes(np_asarray(a), axes)

\* np.sum(a): the sum over every axis
np_sum(a) ==
    IF IsExc(a) THEN a
    ELSE SumAxes(np_asarray(a), [i \in 1..Len(np_asarray(a).shape) |-> i - 1])

\* np.sum(a, axis=k) for one integer k, negative counting from the end; on an
\* array of shape () the axes 0 and -1 are accepted and sum over no axis
np_sum_axis(a, k) ==
    IF IsExc(a) THEN a
    ELSE IF np_asarray(a).shape = <<>> /\ k \in {0, -1} THEN SumAxes(np_asarray(a), <<>>)
    ELSE IF k >= 0 /\ k < Len(np_asarray(a).shape) THEN SumAxes(np_asarray(a), <<k>>)
    ELSE IF k < 0 /\ -k <= Len(np_asarray(a).shape)
    THEN SumAxes(np_asarray(a), <<Len(np_asarray(a).shape) + k>>)
    ELSE ArrRaise("ValueError")

\* np.expand_dims(a, axis=k): a new axis of size 1 at position k of the result
np_expand_dims(a, k) ==
    IF IsExc(a) THEN a
    ELSE LET n == Len(np_asarray(a).shape)
             p == IF k >= 0 THEN k ELSE k + n + 1
         IN IF p < 0 \/ p > n THEN ArrRaise("ValueError")
            ELSE Shaped(np_asarray(a),
                        SubSeq(np_asarray(a).shape, 1, p) \o <<1>>
                        \o SubSeq(np_asarray(a).shape, p + 1, n))

\* axes with the negative ones counted from the end of n axes
NormAxes(axes, n) == [i \in 1..Len(axes) |-> IF axes[i] < 0 THEN axes[i] + n ELSE axes[i]]

\* np.transpose accepts axes for an array of rank n: n axes, each in range
\* (negative ones counting from the end), none of them twice
IsPerm(axes, n) ==
    /\ Len(axes) = n
    /\ \A i \in 1..n : axes[i] \in (-n)..(n - 1)
    /\ \A i, j \in 1..n : NormAxes(axes, n)[i] = NormAxes(axes, n)[j] => i = j

\* np.transpose(a, axes=perm), perm a permutation of 0..rank-1: axis i of the
\* result is axis perm[i] of a
TransposePerm(a, perm) ==
    LET n == Len(a.shape)
        s == [i \in 1..n |-> a.shape[perm[i] + 1]]
        inv == [j \in 1..n |-> CHOOSE i \in 1..n : perm[i] + 1 = j]
    IN IF a.tag = "object" THEN ObjArr(s)
       ELSE [tag |-> a.tag, shape |-> s, data |-> [f \in 1..Prod(s) |->
           LET idx == Unravel(f - 1, s)
               src == [j \in 1..n |-> idx[inv[j]]]
           IN a.data[Ravel(src, a.shape) + 1]]]

\* np.transpose(a, axes): axes None reverses the axes; None as a is the array
\* of shape () holding None
np_transpose(a, axes) ==
    IF IsExc(a) THEN a
    ELSE IF axes = None
    THEN TransposePerm(np_asarray(a),
             [i \in 1..Len(np_asarray(a).shape) |-> Len(np_asarray(a).shape) - i])
    ELSE IF IsPerm(axes[1], Len(np_asarray(a).shape))
    THEN TransposePerm(np_asarray(a), NormAxes(axes[1], Len(np_asarray(a).shape)))
    ELSE ArrRaise("ValueError")

\* the position (0-based) of x[i] in the sorted order of x, equal elements
\* keeping their order
SortRank(x, i) ==
    Cardinality({j \in 1..Len(x) : x[j] < x[i] \/ (x[j] = x[i] /\ j < i)})

\* np.argsort(x) of any tuple of integers: the indices that sort it
np_argsort(x) ==
    [p \in 1..Len(x) |-> (CHOOSE i \in 1..Len(x) : SortRank(x, i) = p - 1) - 1]

\* np.dot of arrays of rank 1 or more: the sum of products over the last axis
\* of a and the second-to-last axis of b (the only axis of a b of rank 1),
\* which must have one length (else ValueError, before any element is
\* touched); the result's shape is a's leading axes, then b's leading axes,
\* then b's last axis.  With an operand of dtype object the result has dtype
\* object: an empty sum leaves its element unset (None), a product with
\* None raises TypeError, and a result of shape () (both operands of rank 1)
\* is returned as the Python object it holds.
Dot(a, b) ==
    LET ra == Len(a.shape)
        rb == Len(b.shape)
        n == a.shape[ra]
        s == SubSeq(a.shape, 1, ra - 1) \o SubSeq(b.shape, 1, rb - 2)
             \o (IF rb = 1 THEN <<>> ELSE <<b.shape[rb]>>)
        d == [f \in 1..Prod(s) |->
                 LET idx == Unravel(f - 1, s)
                     ia == SubSeq(idx, 1, ra - 1)
                     ib == SubSeq(idx, ra, ra + rb - 3)
                     il == IF rb = 1 THEN <<>> ELSE <<idx[Len(idx)]>>
                 IN SumSeq([k \in 1..n |->
                        a.data[Ravel(ia \o <<k - 1>>, a.shape) + 1]
                        * b.data[Ravel(ib \o <<k - 1>> \o il, b.shape) + 1]])]
    IN IF n # b.shape[IF rb = 1 THEN 1 ELSE rb - 1] THEN ArrRaise("ValueError")
       ELSE IF a.tag = "ok" /\ b.tag = "ok" THEN Arr(s, d)
       ELSE IF n = 0 THEN Unwrapped(ObjArr(s))
       ELSE Arith(a, b, s, d)

\* np.dot(a, b): an operand of shape () multiplies the other
np_dot(a, b) ==
    IF IsExc(a) THEN a
    ELSE IF IsExc(b) THEN b
    ELSE IF np_asarray(a).shape = <<>> \/ np_asarray(b).shape = <<>>
    THEN Multiply(np_asarray(a), np_asarray(b))
    ELSE Dot(np_asarray(a), np_asarray(b))

\* a.T: None and a Python number have no such attribute
np_T(a) ==
    IF a.tag \in {"None", "number"} THEN ArrRaise("AttributeError")
    ELSE np_transpose(a, None)

\* g += x on a numeric array g: an x of dtype object cannot be cast into g
\* (TypeError), and the sum must have g's own shape
np_iadd(g, x) ==
    IF IsExc(g) THEN g
    ELSE IF IsExc(x) THEN x
    ELSE IF np_asarray(x).tag # "ok" THEN ArrRaise("TypeError")
    ELSE IF NpBroadcastShape(g.shape, np_asarray(x).shape) # Ok(g.shape)
    THEN ArrRaise("ValueError")
    ELSE Add(g, np_asarray(x))

\* the positions (0-based) of the dimensions of size 1:
\* tuple(np.nonzero(np.array(s) == 1)[0])
RECURSIVE OnesAxes(_, _)
OnesAxes(s, k) ==
    IF k > Len(s) THEN <<>>
    ELSE (IF s[k] = 1 THEN <<k - 1>> ELSE <<>>) \o OnesAxes(s, k + 1)

(***************************************************************************)
(* The graph.  A node is a record; the fields a class does not have hold   *)
(* 0 (operands) or <<>>.  The leaves stand for Kayak's parameter and       *)
(* input nodes: a leaf has a fixed shape and no operands.                  *)
(***************************************************************************)
MkNode(op, A, B, axis, axes, new_shape, shp) ==
    [op |-> op, A |-> A, B |-> B, axis |-> axis, axes |-> axes,
     new_shape |-> new_shape, shp |-> shp]

Ids(ns) == 1..Len(ns)

\* MatSum's axis argument: None, one int k (<<k>>), or a tuple of several ints
AxisIsNone(axis) == axis = None
AxisIsInt(axis) == Len(axis) = 1

\* util.broadcast(shape1, shape2): the broadcast shape, or None when the
\* shapes are incompatible; missing leading dimensions count as 1
broadcast(shape1, shape2) ==
    LET r == NpBroadcastShape(shape1, shape2) IN IF IsOk(r) THEN r ELSE PyNone

\* broadcast(X.shape(...), Y.shape(...)) where either call may raise
BroadcastOf(a, b) ==
    IF ~IsOk(a) THEN a ELSE IF ~IsOk(b) THEN b ELSE broadcast(a.v, b.v)

\* r, unless r is a value: then F of it (an exception ends the computation)
Try(r, F(_)) == IF ~IsOk(r) THEN r ELSE F(r)

(***************************************************************************)
(* shape(inputs=None).  `passed` tells whether the caller passed the       *)
(* inputs argument: X.shape(inputs) passes it (even when it is None),      *)
(* X.shape() does not, and Transpose.shape takes no such argument.         *)
(***************************************************************************)
RECURSIVE shape(_, _, _)

\* X.shape(...) on an operand X
Operand_shape(ns, X, passed) == shape(ns, X, passed)

Leaf_shape(ns, n, passed) == Ok(ns[n].shp)

MatMult_shape(ns, n, passed) ==
    Try(Operand_shape(ns, ns[n].B, TRUE), LAMBDA b :
    Try(Operand_shape(ns, ns[n].A, TRUE), LAMBDA a :
    Try(PyIndex(a.v, 0), LAMBDA a0 :
    IF Len(b.v) = 1 THEN Ok(<<a0.v>>)
    ELSE Try(PyIndex(b.v, 1), LAMBDA b1 : Ok(<<a0.v, b1.v>>)))))

\* A_shape[self.axis] = 1 on the list A_shape
SetOne(s, k) ==
    IF (IF k >= 0 THEN k + 1 ELSE Len(s) + k + 1) \notin 1..Len(s)
    THEN Raise("IndexError")
    ELSE Ok([s EXCEPT ![IF k >= 0 THEN k + 1 ELSE Len(s) + k + 1] = 1])

MatSum_shape(ns, n, passed) ==
    Try(Operand_shape(ns, ns[n].A, TRUE), LAMBDA a :
    IF AxisIsNone(ns[n].axis) THEN Ok([i \in 1..Len(a.v) |-> 1])
    ELSE SetOne(a.v, ns[n].axis[1]))

MatAdd_shape(ns, n, passed) ==
    BroadcastOf(Operand_shape(ns, ns[n].A, TRUE), Operand_shape(ns, ns[n].B, TRUE))

Transpose_shape(ns, n, passed) ==
    IF passed THEN Raise("TypeError")
    ELSE IF ns[n].axes = None
    THEN Try(Operand_shape(ns, ns[n].A, FALSE), LAMBDA a : Ok(Reverse(a.v)))
    ELSE IF ns[n].axes[1] = <<>> THEN Ok(<<>>)
    ELSE Raise("TypeError")

Reshape_shape(ns, n, passed) == Ok(ns[n].new_shape)

shape(ns, n, passed) ==
    CASE ns[n].op = "Leaf" -> Leaf_shape(ns, n, passed)
      [] ns[n].op = "MatMult" -> MatMult_shape(ns, n, passed)
      [] ns[n].op = "MatSum" -> MatSum_shape(ns, n, passed)
      [] ns[n].op = "MatAdd" -> MatAdd_shape(ns, n, passed)
      [] ns[n].op = "Transpose" -> Transpose_shape(ns, n, passed)
      [] ns[n].op = "Reshape" -> Reshape_shape(ns, n, passed)

(***************************************************************************)
(* depends(other)                                                          *)
(***************************************************************************)
RECURSIVE depends(_, _, _)

\* X.depends(other) on an operand X
Operand_depends(ns, X, other) == depends(ns, X, other)

Leaf_depends(ns, n, other) == other = n

MatMult_depends(ns, n, other) ==
    \/ other = ns[n].A
    \/ other = ns[n].B
    \/ Operand_depends(ns, ns[n].A, other)
    \/ Operand_depends(ns, ns[n].B, other)

\* a MatSum.depends that looks at its operand only, not below it
MatSum_depends_Shallow(ns, n, other) == ns[n].A = other

MatSum_depends(ns, n, other) ==
    ns[n].A = other \/ Operand_depends(ns, ns[n].A, other)

MatAdd_depends(ns, n, other) ==
    \/ other = ns[n].A
    \/ other = ns[n].B
    \/ Operand_depends(ns, ns[n].A, other)
    \/ Operand_depends(ns, ns[n].B, other)

Transpose_depends(ns, n, other) ==
    other = ns[n].A \/ Operand_depends(ns, ns[n].A, other)

Reshape_depends(ns, n, other) ==
    other = ns[n].A \/ Operand_depends(ns, ns[n].A, other)

depends(ns, n, other) ==
    CASE ns[n].op = "Leaf" -> Leaf_depends(ns, n, other)
      [] ns[n].op = "MatMult" -> MatMult_depends(ns, n, other)
      [] ns[n].op = "MatSum" -> MatSum_depends(ns, n, other)
      [] ns[n].op = "MatAdd" -> MatAdd_depends(ns, n, other)
      [] ns[n].op = "Transpose" -> Transpose_depends(ns, n, other)
      [] ns[n].op = "Reshape" -> Reshape_depends(ns, n, other)

(***************************************************************************)
(* Constructors.  A constructor returns [tag, ns, id]: the arena with the  *)
(* new nodes and the new node's identity, or the exception raised and the  *)
(* arena it was given (nothing refers to a node whose constructor raised). *)
(***************************************************************************)
Built(ns, node) == [tag |-> "ok", ns |-> Append(ns, node), id |-> Len(ns) + 1]
Failed(ns, e) == [tag |-> e, ns |-> ns, id |-> 0]

\* the operand B as given: nothing built, nothing raised
Given(ns, B) == [tag |-> "ok", ns |-> ns, id |-> B]


\* A.shape()[1] != B.shape()[0], or the exception evaluating it raises
MatMult_mismatch(a, b) ==
    Try(a, LAMBDA sa : Try(PyIndex(sa.v, 1), LAMBDA a1 :
    Try(b, LAMBDA sb : Try(PyIndex(sb.v, 0), LAMBDA b0 : Ok(a1.v # b0.v)))))

\* MatMult.__init__ after the recursion: B is inner.id, in the arena inner.ns
MatMult_check(ns, A, inner, mismatch) ==
    IF ~IsOk(mismatch) THEN Failed(ns, mismatch.tag)
    ELSE IF mismatch.v THEN Failed(ns, "Exception")
    ELSE Built(inner.ns, MkNode("MatMult", A, inner.id, <<>>, <<>>, <<>>, <<>>))

MatMult_wire(ns, A, inner) ==
    IF inner.tag # "ok" THEN Failed(ns, inner.tag)
    ELSE MatMult_check(ns, A, inner,
             MatMult_mismatch(shape(inner.ns, A, FALSE), shape(inner.ns, inner.id, FALSE)))

RECURSIVE MatMult_init(_, _, _, _)
MatMult_init(ns, A, B, args) ==
    IF Len(args) > 0
    THEN MatMult_wire(ns, A, MatMult_init(ns, B, Head(args), Tail(args)))
    ELSE MatMult_wire(ns, A, Given(ns, B))

MatSum_init(ns, A, axis) ==
    IF ~AxisIsNone(axis) /\ ~AxisIsInt(axis) THEN Failed(ns, "Exception")
    ELSE Built(ns, MkNode("MatSum", A, 0, axis, <<>>, <<>>, <<>>))

\* MatAdd.__init__ after the recursion: r is broadcast(A.shape(), B.shape()),
\* and L, R are the operands to store as self.A, self.B
MatAdd_check(ns, inner, r, L, R) ==
    IF r.tag = "None" THEN Failed(ns, "Exception")
    ELSE IF ~IsOk(r) THEN Failed(ns, r.tag)
    ELSE Built(inner.ns, MkNode("MatAdd", L, R, <<>>, <<>>, <<>>, <<>>))

MatAdd_wire(ns, A, inner) ==
    IF inner.tag # "ok" THEN Failed(ns, inner.tag)
    ELSE MatAdd_check(ns, inner,
             BroadcastOf(shape(inner.ns, A, FALSE), shape(inner.ns, inner.id, FALSE)),
             A, inner.id)

\* the wiring of a MatAdd.__init__ that stores its two operands in the wrong order
MatAdd_wire_Swapped(ns, A, inner) ==
    IF inner.tag # "ok" THEN Failed(ns, inner.tag)
    ELSE MatAdd_check(ns, inner,
             BroadcastOf(shape(inner.ns, A, FALSE), shape(inner.ns, inner.id, FALSE)),
             inner.id, A)

RECURSIVE MatAdd_init(_, _, _, _)

\* a MatAdd.__init__ that stores its two operands in the wrong order
MatAdd_init_Swapped(ns, A, B, args) ==
    IF Len(args) > 0
    THEN MatAdd_wire_Swapped(ns, A, MatAdd_init(ns, B, Head(args), Tail(args)))
    ELSE MatAdd_wire_Swapped(ns, A, Given(ns, B))

MatAdd_init(ns, A, B, args) ==
    IF Len(args) > 0
    THEN MatAdd_wire(ns, A, MatAdd_init(ns, B, Head(args), Tail(args)))
    ELSE MatAdd_wire(ns, A, Given(ns, B))

Transpose_init(ns, A, axes) ==
    Built(ns, MkNode("Transpose", A, 0, <<>>, axes, <<>>, <<>>))

Reshape_init(ns, A, new_shape) ==
    Built(ns, MkNode("Reshape", A, 0, <<>>, <<>>, new_shape, <<>>))

Leaf_init(ns, shp) ==
    Built(ns, MkNode("Leaf", 0, 0, <<>>, <<>>, <<>>, shp))

(***************************************************************************)
(* Forward evaluation.  An evaluation threads st = [cache, evals]: the     *)
(* nodes' cached values and, per node, how many times compute_value was    *)
(* invoked so far.  A call returns [val, st].                              *)
(*                                                                         *)
(* `inputs` binds the leaves: None leaves every leaf at its own array,     *)
(* <<k>> binds every leaf to the array of its shape scaled by k.           *)
(***************************************************************************)
Res(val, st) == [val |-> val, st |-> st]

\* r, unless r returned a value: then F of it (an exception ends the computation)
Bind(r, F(_)) == IF IsExc(r.val) THEN r ELSE F(r)

LeafArray(shp, inputs) ==
    Arr(shp, [i \in 1..Prod(shp) |-> (IF inputs = None THEN 1 ELSE inputs[1]) * i])

RECURSIVE value(_, _, _, _, _)

\* X.value(reset, rng, inputs) on an operand X
Operand_value(ns, st, X, reset, inputs) == value(ns, st, X, reset, inputs)

Leaf_compute_value(ns, st, n, reset, inputs) ==
    Res(LeafArray(ns[n].shp, inputs), st)

MatMult_compute_value(ns, st, n, reset, inputs) ==
    Bind(Operand_value(ns, st, ns[n].A, reset, inputs), LAMBDA a :
    Bind(Operand_value(ns, a.st, ns[n].B, reset, inputs), LAMBDA b :
    Res(np_dot(a.val, b.val), b.st)))

MatSum_compute_value(ns, st, n, reset, inputs) ==
    Bind(Operand_value(ns, st, ns[n].A, reset, inputs), LAMBDA a :
    IF AxisIsNone(ns[n].axis)
    THEN Res(ndarray_reshape(np_sum(a.val), [i \in 1..Len(a.val.shape) |-> 1]), a.st)
    ELSE Res(np_expand_dims(np_sum_axis(a.val, ns[n].axis[1]), ns[n].axis[1]), a.st))

MatAdd_compute_value(ns, st, n, reset, inputs) ==
    Bind(Operand_value(ns, st, ns[n].A, reset, inputs), LAMBDA a :
    Bind(Operand_value(ns, a.st, ns[n].B, reset, inputs), LAMBDA b :
    Res(np_add(a.val, b.val), b.st)))

Transpose_compute_value(ns, st, n, reset, inputs) ==
    Bind(Operand_value(ns, st, ns[n].A, reset, inputs), LAMBDA a :
    Res(np_transpose(a.val, ns[n].axes), a.st))

Reshape_compute_value(ns, st, n, reset, inputs) ==
    Bind(Operand_value(ns, st, ns[n].A, reset, inputs), LAMBDA a :
    Res(np_reshape(a.val, ns[n].new_shape), a.st))

\* st, with one more invocation of n's compute_value recorded
Counted(st, n) == [st EXCEPT !.evals[n] = @ + 1]

\* n.compute_value(reset, rng, inputs): the method of n's class
Node_compute_value(ns, st, n, reset, inputs) ==
    CASE ns[n].op = "Leaf" -> Leaf_compute_value(ns, st, n, reset, inputs)
      [] ns[n].op = "MatMult" -> MatMult_compute_value(ns, st, n, reset, inputs)
      [] ns[n].op = "MatSum" -> MatSum_compute_value(ns, st, n, reset, inputs)
      [] ns[n].op = "MatAdd" -> MatAdd_compute_value(ns, st, n, reset, inputs)
      [] ns[n].op = "Transpose" -> Transpose_compute_value(ns, st, n, reset, inputs)
      [] ns[n].op = "Reshape" -> Reshape_compute_value(ns, st, n, reset, inputs)

\* self.compute_value(reset, rng, inputs) as value() calls it, the call counted
compute_value(ns, st, n, reset, inputs) ==
    Node_compute_value(ns, Counted(st, n), n, reset, inputs)

\* self._value = <the result>; return self._value
Stored(n, r) == Res(r.val, [r.st EXCEPT !.cache[n] = Some(r.val)])

\* a value() that answers from the cache whenever there is one, reset or not
value_KeepsCache(ns, st, n, reset, inputs) ==
    IF st.cache[n] # None THEN Res(st.cache[n][1], st)
    ELSE Bind(compute_value(ns, st, n, reset, inputs), LAMBDA r : Stored(n, r))

\* Differentiable.value(reset, rng, inputs): the cached value if there is one
\* and reset is false; else compute_value's result, stored and returned
value(ns, st, n, reset, inputs) ==
    IF ~reset /\ st.cache[n] # None THEN Res(st.cache[n][1], st)
    ELSE Bind(compute_value(ns, st, n, reset, inputs), LAMBDA r : Stored(n, r))

NoEvals(ns) == [i \in 1..Len(ns) |-> 0]

NoCache(ns) == [i \in 1..Len(ns) |-> None]

\* the array a node evaluates to from scratch, all leaves at their own arrays
FreshValue(ns, n) ==
    compute_value(ns, [cache |-> NoCache(ns), evals |-> NoEvals(ns)], n, TRUE, None).val

(***************************************************************************)
(* Gradients.  grad and compute_grad thread st as value does: MatMult's    *)
(* local gradients evaluate the operands with value().  outgrad is an      *)
(* array, or ArrNone for the argument None.                                *)
(***************************************************************************)
RECURSIVE grad(_, _, _, _, _)

\* X.grad(other, outgrad) on an operand X
Operand_grad(ns, st, X, other, outgrad) == grad(ns, st, X, other, outgrad)

\* np.zeros(X.shape()), X.shape() being s
ZerosOf(s, st) == Res(IF IsOk(s) THEN np_zeros(s.v) ELSE ArrRaise(s.tag), st)

\* gradient += l, where l was computed in the state l.st
Accumulate(gradient, l) == Res(np_iadd(gradient, l.val), l.st)

\* X.grad(other, l), where l is the local gradient, computed in the state l.st
Through(ns, X, other, l) == Operand_grad(ns, l.st, X, other, l.val)

\* one operand's share of the chain rule in a binary node: X the operand, g
\* the accumulator so far and l the local gradient with respect to X
\*   if other == X: gradient += l  elif X.depends(other): gradient += X.grad(other, l)
Contribution(ns, g, X, other, l) ==
    IF other = X THEN Accumulate(g.val, l)
    ELSE IF Operand_depends(ns, X, other) THEN Accumulate(g.val, Through(ns, X, other, l))
    ELSE g

\* the chain rule of a unary node: l the local gradient, z the zero gradient
\*   if other == A: return l  elif A.depends(other): return A.grad(other, l)  else: return z
Chain(ns, X, other, l, z) ==
    IF other = X THEN l
    ELSE IF Operand_depends(ns, X, other) THEN Through(ns, X, other, l)
    ELSE z

\* np.dot(outgrad, b.T), b the value of B
DotT(outgrad, b) == Res(np_dot(outgrad, np_T(b.val)), b.st)

\* np.dot(a.T, outgrad), a the value of A
TDot(a, outgrad) == Res(np_dot(np_T(a.val), outgrad), a.st)

MatMult_local_grad_A(ns, st, n, outgrad) ==
    DotT(outgrad, Operand_value(ns, st, ns[n].B, FALSE, None))

MatMult_local_grad_B(ns, st, n, outgrad) ==
    TDot(Operand_value(ns, st, ns[n].A, FALSE, None), outgrad)

MatMult_compute_grad(ns, st, n, other, outgrad) ==
    Bind(ZerosOf(shape(ns, other, FALSE), st), LAMBDA g0 :
    Bind(Contribution(ns, g0, ns[n].A, other,
                      MatMult_local_grad_A(ns, g0.st, n, outgrad)), LAMBDA gA :
    Contribution(ns, gA, ns[n].B, other,
                 MatMult_local_grad_B(ns, gA.st, n, outgrad))))

\* outgrad * np.ones(s)
TimesOnes(outgrad, s, st) ==
    Res(IF IsOk(s) THEN np_multiply(outgrad, np_ones(s.v)) ELSE ArrRaise(s.tag), st)

MatSum_local_grad(ns, st, n, outgrad) ==
    TimesOnes(outgrad, shape(ns, ns[n].A, FALSE), st)

MatSum_compute_grad(ns, st, n, other, outgrad) ==
    Chain(ns, ns[n].A, other,
          MatSum_local_grad(ns, st, n, outgrad),
          ZerosOf(shape(ns, other, FALSE), st))

\* the body shared by MatAdd.local_grad_A and local_grad_B, x the operand's shape()
MatAdd_local_grad(x, outgrad, st) ==
    IF IsExc(outgrad) THEN Res(outgrad, st)
    ELSE IF ~IsOk(x) THEN Res(ArrRaise(x.tag), st)
    ELSE IF np_atleast_1d(outgrad).shape = x.v THEN Res(outgrad, st)
    ELSE Res(ndarray_reshape(np_sum_axes(outgrad, OnesAxes(x.v, 1)), x.v), st)

MatAdd_local_grad_A(ns, st, n, outgrad) ==
    MatAdd_local_grad(shape(ns, ns[n].A, FALSE), outgrad, st)

MatAdd_local_grad_B(ns, st, n, outgrad) ==
    MatAdd_local_grad(shape(ns, ns[n].B, FALSE), outgrad, st)

\* np.ones(s), s the result of broadcast(...)
OnesOf(s) ==
    IF IsOk(s) THEN np_ones(s.v)
    ELSE IF s.tag = "None" THEN ArrRaise("TypeError")
    ELSE ArrRaise(s.tag)

\* if outgrad is None: outgrad = np.ones(broadcast(self.A.shape(), self.B.shape()))
MatAdd_outgrad(ns, n, outgrad) ==
    IF outgrad.tag = "None"
    THEN OnesOf(BroadcastOf(shape(ns, ns[n].A, FALSE), shape(ns, ns[n].B, FALSE)))
    ELSE outgrad

\* a MatAdd.compute_grad whose second operand contributes only when the first
\* did not (`elif other == self.B`)
MatAdd_compute_grad_OnePath(ns, st, n, other, outgrad) ==
    Bind(Res(MatAdd_outgrad(ns, n, outgrad), st), LAMBDA o :
    Bind(ZerosOf(shape(ns, other, FALSE), o.st), LAMBDA g0 :
    IF other = ns[n].A \/ Operand_depends(ns, ns[n].A, other)
    THEN Contribution(ns, g0, ns[n].A, other,
                      MatAdd_local_grad_A(ns, g0.st, n, o.val))
    ELSE Contribution(ns, g0, ns[n].B, other,
                      MatAdd_local_grad_B(ns, g0.st, n, o.val))))

MatAdd_compute_grad(ns, st, n, other, outgrad) ==
    Bind(Res(MatAdd_outgrad(ns, n, outgrad), st), LAMBDA o :
    Bind(ZerosOf(shape(ns, other, FALSE), o.st), LAMBDA g0 :
    Bind(Contribution(ns, g0, ns[n].A, other,
                      MatAdd_local_grad_A(ns, g0.st, n, o.val)), LAMBDA gA :
    Contribution(ns, gA, ns[n].B, other,
                 MatAdd_local_grad_B(ns, gA.st, n, o.val)))))

Transpose_local_grad(ns, st, n, outgrad) ==
    IF ns[n].axes = None THEN Res(np_transpose(outgrad, None), st)
    ELSE Res(np_transpose(outgrad, Some(np_argsort(ns[n].axes[1]))), st)

Transpose_compute_grad(ns, st, n, other, outgrad) ==
    Chain(ns, ns[n].A, other,
          Transpose_local_grad(ns, st, n, outgrad),
          ZerosOf(shape(ns, ns[n].A, FALSE), st))

\* np.reshape(outgrad, s)
ReshapedTo(outgrad, s, st) ==
    Res(IF IsOk(s) THEN np_reshape(outgrad, s.v) ELSE ArrRaise(s.tag), st)

Reshape_local_grad(ns, st, n, outgrad) ==
    ReshapedTo(outgrad, shape(ns, ns[n].A, FALSE), st)

Reshape_compute_grad(ns, st, n, other, outgrad) ==
    Chain(ns, ns[n].A, other,
          Reshape_local_grad(ns, st, n, outgrad),
          ZerosOf(shape(ns, ns[n].A, FALSE), st))

\* n.local_grad_A(outgrad), n.local_grad_B(outgrad): the methods of the
\* binary operations
local_grad_A(ns, st, n, outgrad) ==
    CASE ns[n].op = "MatMult" -> MatMult_local_grad_A(ns, st, n, outgrad)
      [] ns[n].op = "MatAdd" -> MatAdd_local_grad_A(ns, st, n, outgrad)

local_grad_B(ns, st, n, outgrad) ==
    CASE ns[n].op = "MatMult" -> MatMult_local_grad_B(ns, st, n, outgrad)
      [] ns[n].op = "MatAdd" -> MatAdd_local_grad_B(ns, st, n, outgrad)

\* n.local_grad(outgrad): the method of the unary operations
local_grad(ns, st, n, outgrad) ==
    CASE ns[n].op = "MatSum" -> MatSum_local_grad(ns, st, n, outgrad)
      [] ns[n].op = "Transpose" -> Transpose_local_grad(ns, st, n, outgrad)
      [] ns[n].op = "Reshape" -> Reshape_local_grad(ns, st, n, outgrad)

\* the dispatch of self.compute_grad(other, outgrad) for the operations
compute_grad(ns, st, n, other, outgrad) ==
    CASE ns[n].op = "MatMult" -> MatMult_compute_grad(ns, st, n, other, outgrad)
      [] ns[n].op = "MatSum" -> MatSum_compute_grad(ns, st, n, other, outgrad)
      [] ns[n].op = "MatAdd" -> MatAdd_compute_grad(ns, st, n, other, outgrad)
      [] ns[n].op = "Transpose" -> Transpose_compute_grad(ns, st, n, other, outgrad)
      [] ns[n].op = "Reshape" -> Reshape_compute_grad(ns, st, n, other, outgrad)

\* Differentiable.grad(other, outgrad): delegates to compute_grad; an outgrad
\* whose computation raised never reaches it
grad(ns, st, n, other, outgrad) ==
    IF IsExc(outgrad) THEN Res(outgrad, st)
    ELSE compute_grad(ns, st, n, other, outgrad)

(***************************************************************************)
(* Reachability in the operand graph, computed as a closure.               *)
(***************************************************************************)
Operands(ns, n) == {ns[n].A, ns[n].B} \ {0}

RECURSIVE Closure(_, _, _)
Closure(ns, S, k) ==
    IF k = 0 THEN S
    ELSE Closure(ns, S \cup UNION {Operands(ns, m) : m \in S}, k - 1)

\* the nodes reachable from n by one or more operand references
Descendants(ns, n) == Closure(ns, Operands(ns, n), Len(ns))

IsOperation(ns, n) == ns[n].op # "Leaf"

(***************************************************************************)
(* The state: the arena, each node's cached value (Differentiable._value,  *)
(* None until the node is evaluated), and the last call: its name and the  *)
(* record of it.                                                           *)
(***************************************************************************)
\* the record of a call: its arguments, its result, and the size of the arena
\* when it was made
Call(args, ret) == [args |-> args, ret |-> ret, before |-> Len(nodes)]

Init ==
    /\ nodes = <<>>
    /\ cache = <<>>
    /\ done = <<"init", Call(<<>>, Ok(<<>>))>>

\* the effect of a constructor call on the state: the new nodes start uncached.
\* Constructors are called while the arena holds fewer than cap nodes.
Construct(name, args, r, cap) ==
    /\ Len(nodes) < cap
    /\ Len(r.ns) <= cap
    /\ nodes' = r.ns
    /\ cache' = cache \o [i \in 1..(Len(r.ns) - Len(nodes)) |-> None]
    /\ done' = <<name, Call(args, [tag |-> r.tag, v |-> r.id])>>

NewLeaf(shp, cap) == Construct("Leaf", <<shp>>, Leaf_init(nodes, shp), cap)

NewMatMult(xs, cap) ==
    Construct("MatMult", xs, MatMult_init(nodes, xs[1], xs[2], SubSeq(xs, 3, Len(xs))), cap)

NewMatSum(A, axis, cap) ==
    Construct("MatSum", <<A, axis>>, MatSum_init(nodes, A, axis), cap)

NewMatAdd(xs, cap) ==
    Construct("MatAdd", xs, MatAdd_init(nodes, xs[1], xs[2], SubSeq(xs, 3, Len(xs))), cap)

NewTranspose(A, axes, cap) ==
    Construct("Transpose", <<A, axes>>, Transpose_init(nodes, A, axes), cap)

NewReshape(A, new_shape, cap) ==
    Construct("Reshape", <<A, new_shape>>, Reshape_init(nodes, A, new_shape), cap)

\* n.shape(inputs) when passed, n.shape() otherwise
CallShape(n, passed) ==
    /\ done' = <<"shape", Call(<<n, passed>>, shape(nodes, n, passed))>>
    /\ UNCHANGED <<nodes, cache>>

State == [cache |-> cache, evals |-> NoEvals(nodes)]

\* the effect of a call that evaluates nodes: r = [val, st] is what it returned
\* and the state it left; the call's record keeps the compute_value counts
Evaluated(name, args, r) ==
    /\ done' = <<name, [args |-> args, ret |-> r.val, before |-> Len(nodes),
                        evals |-> r.st.evals, was |-> cache]>>
    /\ cache' = r.st.cache
    /\ UNCHANGED nodes

\* the upstream gradients a caller passes to a node whose value is v: arrays
\* shaped like v
Ramp(s) == Arr(s, [i \in 1..Prod(s) |-> i])

GradsLike(v) == IF v.tag # "ok" THEN {} ELSE {np_ones(v.shape), Ramp(v.shape)}

OutGrads(n) == GradsLike(FreshValue(nodes, n))

\* n.grad(other, outgrad) on an operation n
CallGrad(n, other, outgrad) ==
    /\ IsOperation(nodes, n)
    /\ Evaluated("grad", <<n, other, outgrad>>, grad(nodes, State, n, other, outgrad))

\* n.compute_grad(other, outgrad) on an operation n, called directly
CallComputeGrad(n, other, outgrad) ==
    /\ IsOperation(nodes, n)
    /\ Evaluated("compute_grad", <<n, other, outgrad>>,
                 compute_grad(nodes, State, n, other, outgrad))

\* n.local_grad_A(outgrad) on a MatMult or MatAdd n: MatMult's evaluates B
CallLocalGradA(n, outgrad) ==
    /\ nodes[n].op \in {"MatMult", "MatAdd"}
    /\ Evaluated("local_grad_A", <<n, outgrad>>,
                 local_grad_A(nodes, State, n, outgrad))

\* n.local_grad_B(outgrad) on a MatMult or MatAdd n: MatMult's evaluates A
CallLocalGradB(n, outgrad) ==
    /\ nodes[n].op \in {"MatMult", "MatAdd"}
    /\ Evaluated("local_grad_B", <<n, outgrad>>,
                 local_grad_B(nodes, State, n, outgrad))

\* n.local_grad(outgrad) on a MatSum, Transpose or Reshape n
CallLocalGrad(n, outgrad) ==
    /\ nodes[n].op \in {"MatSum", "Transpose", "Reshape"}
    /\ Evaluated("local_grad", <<n, outgrad>>,
                 local_grad(nodes, State, n, outgrad))

\* n.compute_value(reset, rng, inputs) on an operation n, called directly:
\* the operands are evaluated and cached, the result is not stored on n
CallComputeValue(n, reset, inputs) ==
    /\ IsOperation(nodes, n)
    /\ Evaluated("compute_value", <<n, reset, inputs>>,
                 Node_compute_value(nodes, State, n, reset, inputs))

\* n.value(reset, rng, inputs)
CallValue(n, reset, inputs) ==
    Evaluated("value", <<n, reset, inputs>>, value(nodes, State, n, reset, inputs))

CallDepends(n, other) ==
    /\ done' = <<"depends", Call(<<n, other>>, Ok(depends(nodes, n, other)))>>
    /\ UNCHANGED <<nodes, cache>>

(***************************************************************************)
(* SpecDep: graphs of all five operations over square leaves, and          *)
(* depends() called on any pair of nodes.                                  *)
(***************************************************************************)
DepMaxNodes == 3

DepShape == <<2, 2>>

NextDep ==
    \/ NewLeaf(DepShape, DepMaxNodes)
    \/ \E a, b \in Ids(nodes) : NewMatMult(<<a, b>>, DepMaxNodes)
    \/ \E a \in Ids(nodes) : NewMatSum(a, None, DepMaxNodes)
    \/ \E a, b \in Ids(nodes) : NewMatAdd(<<a, b>>, DepMaxNodes)
    \/ \E a \in Ids(nodes) : NewTranspose(a, None, DepMaxNodes)
    \/ \E a \in Ids(nodes) : NewReshape(a, DepShape, DepMaxNodes)
    \/ \E n, other \in Ids(nodes) : CallDepends(n, other)

SpecDep == Init /\ [][NextDep]_vars

\* C1 (as stated): for an operation node N, N.depends(other) is true iff other
\* is N itself or is reachable from N through operand references; in particular
\* N.depends(N) is true.
C1_DependsReflexive ==
    (call = "depends" /\ IsOperation(nodes, last.args[1]))
        => (last.ret.v <=> (last.args[2] = last.args[1]
                            \/ last.args[2] \in Descendants(nodes, last.args[1])))

\* C1 (amended): for an operation node N, N.depends(other) is true iff other is
\* reachable from N by one or more operand references; N.depends(N) is false.
C1_DependsProper ==
    (call = "depends" /\ IsOperation(nodes, last.args[1]))
        => (last.ret.v <=> last.args[2] \in Descendants(nodes, last.args[1]))

\* depends() answered true for a node two operand references below an operation
C1_Witness ==
    /\ call = "depends"
    /\ IsOperation(nodes, last.args[1])
    /\ last.ret.v
    /\ last.args[2] \notin Operands(nodes, last.args[1])
    /\ \E m \in Ids(nodes) : nodes[m].op = "MatSum" /\ last.args[2] \in Descendants(nodes, m)

(***************************************************************************)
(* SpecNary: construction of MatMult and MatAdd from three operands, over  *)
(* leaves of three shapes, so that some chains are compatible and some not.*)
(***************************************************************************)
NaryMaxNodes == 4

NaryShapes == {<<1, 2>>, <<2, 2>>, <<3, 2>>}
NaryArities == {3}

ArgLists(S, lens) == UNION {[1..k -> S] : k \in lens}

NextNary ==
    \/ \E s \in NaryShapes : NewLeaf(s, NaryMaxNodes)
    \/ \E xs \in ArgLists(Ids(nodes), NaryArities) : NewMatMult(xs, NaryMaxNodes)
    \/ \E xs \in ArgLists(Ids(nodes), NaryArities) : NewMatAdd(xs, NaryMaxNodes)

SpecNary == Init /\ [][NextNary]_vars

\* the shape of the chain f(xs[j], f(xs[j+1], ...)) by the rule of the operation,
\* for operands that are matrices: not "ok" when some pair of it is incompatible
RECURSIVE ChainShape(_, _, _)
ChainShape(op, xs, j) ==
    IF j = Len(xs) THEN shape(nodes, xs[j], FALSE)
    ELSE LET a == shape(nodes, xs[j], FALSE)
             rest == ChainShape(op, xs, j + 1)
         IN IF ~IsOk(rest) THEN rest
            ELSE IF op = "MatAdd" THEN NpBroadcastShape(a.v, rest.v)
            ELSE IF a.v[2] # rest.v[1] THEN Raise("Incompatible")
            ELSE Ok(<<a.v[1], rest.v[2]>>)

\* C9: MatMult or MatAdd of k >= 3 operands X1..Xk builds exactly k-1 binary
\* nodes f(X1, f(X2, ... f(Xk-1, Xk))), the innermost first, each with two
\* operands in the order given; an incompatible pair anywhere in the chain makes
\* the construction raise, and a construction that raises leaves no node.
C9_NaryChain ==
    (call \in {"MatMult", "MatAdd"} /\ Len(last.args) >= 3) =>
        LET xs == last.args
            k == Len(xs)
            first == last.before + 1
        IN /\ ~IsOk(ChainShape(call, xs, 1)) => last.ret.tag # "ok"
           /\ last.ret.tag # "ok" => Len(nodes) = last.before
           /\ last.ret.tag = "ok" =>
                /\ Len(nodes) = last.before + k - 1
                /\ last.ret.v = Len(nodes)
                /\ \A j \in 1..(k - 1) :
                     LET m == last.before + k - j IN
                     /\ nodes[m].op = call
                     /\ nodes[m].A = xs[j]
                     /\ nodes[m].B = IF j = k - 1 THEN xs[k] ELSE m - 1
                     /\ Operands(nodes, m) \subseteq (Ids(nodes) \ {m})

\* a three-operand MatAdd whose first and last operands are leaves of
\* different shapes was built
C9_Witness ==
    /\ call = "MatAdd"
    /\ Len(last.args) = 3
    /\ last.ret.tag = "ok"
    /\ nodes[last.args[1]].op = "Leaf"
    /\ nodes[last.args[3]].op = "Leaf"
    /\ nodes[last.args[1]].shp # nodes[last.args[3]].shp

(***************************************************************************)
(* SpecShape: graphs of all five operations over leaves of several shapes, *)
(* and shape() called with and without the inputs argument.                *)
(***************************************************************************)
ShapeMaxNodes == 3

ShapeShapes == {<<2>>, <<2, 1>>, <<2, 2>>, <<3, 2>>}
ShapeAxes == {None, Some(<<1, 0>>)}
ShapeAxis == {None, Some(1)}
ShapeNew == {<<4>>, <<-1>>}

NextShape ==
    \/ \E s \in ShapeShapes : NewLeaf(s, ShapeMaxNodes)
    \/ \E a, b \in Ids(nodes) : NewMatMult(<<a, b>>, ShapeMaxNodes)
    \/ \E a \in Ids(nodes), axis \in ShapeAxis : NewMatSum(a, axis, ShapeMaxNodes)
    \/ \E a, b \in Ids(nodes) : NewMatAdd(<<a, b>>, ShapeMaxNodes)
    \/ \E a \in Ids(nodes), axes \in ShapeAxes : NewTranspose(a, axes, ShapeMaxNodes)
    \/ \E a \in Ids(nodes), s \in ShapeNew : NewReshape(a, s, ShapeMaxNodes)
    \/ \E n \in Ids(nodes), passed \in BOOLEAN : CallShape(n, passed)

SpecShape == Init /\ [][NextShape]_vars

\* C4: for every constructed node, shape(inputs) returns the shape of the array
\* compute_value produces, for every operation, Transpose with default and with
\* explicit axes included.
C4_ShapeInvariant ==
    (call = "shape" /\ FreshValue(nodes, last.args[1]).tag = "ok")
        => last.ret = Ok(FreshValue(nodes, last.args[1]).shape)

\* C7: MatMult(A, B), for operands of rank 1 or 2, raises exactly when A's
\* trailing dimension differs from B's leading dimension, and a construction
\* that raises leaves no node.
C7_MatMultRaisesIffMismatch ==
    (/\ call = "MatMult" /\ Len(last.args) = 2
     /\ FreshValue(nodes, last.args[1]).tag = "ok"
     /\ FreshValue(nodes, last.args[2]).tag = "ok"
     /\ Len(FreshValue(nodes, last.args[1]).shape) \in {1, 2}
     /\ Len(FreshValue(nodes, last.args[2]).shape) \in {1, 2}) =>
        /\ (last.ret.tag # "ok") <=>
               (FreshValue(nodes, last.args[1]).shape[
                    Len(FreshValue(nodes, last.args[1]).shape)]
                # FreshValue(nodes, last.args[2]).shape[1])
        /\ last.ret.tag # "ok" => Len(nodes) = last.before

\* C8: MatAdd(A, B) is built iff broadcast(A.shape(), B.shape()) returns a shape,
\* and the node's shape() is then that shape.
C8_MatAddShape ==
    /\ (call = "MatAdd" /\ Len(last.args) = 2) =>
          (last.ret.tag = "ok" <=>
              IsOk(BroadcastOf(shape(nodes, last.args[1], FALSE),
                               shape(nodes, last.args[2], FALSE))))
    /\ (call = "shape" /\ nodes[last.args[1]].op = "MatAdd") =>
          last.ret = BroadcastOf(shape(nodes, nodes[last.args[1]].A, FALSE),
                                 shape(nodes, nodes[last.args[1]].B, FALSE))

(***************************************************************************)
(* SpecAdd: sums and products over square leaves, with the gradient of an  *)
(* operation requested for a node below it, the upstream gradient given or *)
(* None.                                                                   *)
(***************************************************************************)
AddMaxNodes == 3

AddShape == <<2, 2>>

NextAdd ==
    \/ NewLeaf(AddShape, AddMaxNodes)
    \/ \E a, b \in Ids(nodes) : NewMatAdd(<<a, b>>, AddMaxNodes)
    \/ \E a, b \in Ids(nodes) : NewMatMult(<<a, b>>, AddMaxNodes)
    \/ \E n \in Ids(nodes) : \E other \in Descendants(nodes, n) :
          CallGrad(n, other, Ramp(AddShape))
    \/ \E n \in Ids(nodes) : \E other \in Descendants(nodes, n) :
          CallGrad(n, other, ArrNone)

SpecAdd == Init /\ [][NextAdd]_vars

\* the number of operand paths from n to X (an operand used twice counts twice)
RECURSIVE NumPaths(_, _, _)
NumPaths(ns, n, X) ==
    IF n = X THEN 1
    ELSE IF ns[n].op = "Leaf" THEN 0
    ELSE NumPaths(ns, ns[n].A, X)
         + (IF ns[n].B = 0 THEN 0 ELSE NumPaths(ns, ns[n].B, X))

\* the array a with every element multiplied by k
Scaled(a, k) == Arr(a.shape, [i \in 1..Len(a.data) |-> k * a.data[i]])

\* n is a MatAdd, and n and all below it are MatAdd nodes over leaves of one shape
IsAddDag(ns, n) ==
    /\ ns[n].op = "MatAdd"
    /\ \A m \in Descendants(ns, n) : ns[m].op \in {"MatAdd", "Leaf"}
    /\ \A m1, m2 \in Descendants(ns, n) :
          (ns[m1].op = "Leaf" /\ ns[m2].op = "Leaf") => ns[m1].shp = ns[m2].shp

\* the sum, over every operand path from n to X, of the upstream gradient g
\* pushed down that path through the local gradients of the nodes on it
RECURSIVE PathSum(_, _, _, _)

\* what the paths through one operand add to the sum acc: l is the local
\* gradient with respect to that operand
PathsThrough(ns, acc, operand, X, l) ==
    IF operand = X \/ X \in Descendants(ns, operand)
    THEN np_iadd(acc, PathSum(ns, operand, X, l))
    ELSE acc

PathSum(ns, n, X, g) ==
    IF n = X \/ g.tag # "ok" THEN g
    ELSE IF ns[n].op = "MatAdd"
    THEN PathsThrough(ns,
             PathsThrough(ns, np_zeros(ns[X].shp), ns[n].A, X,
                 MatAdd_local_grad(shape(ns, ns[n].A, FALSE), g, <<>>).val),
             ns[n].B, X,
             MatAdd_local_grad(shape(ns, ns[n].B, FALSE), g, <<>>).val)
    ELSE PathsThrough(ns,
             PathsThrough(ns, np_zeros(ns[X].shp), ns[n].A, X,
                 np_dot(g, np_T(FreshValue(ns, ns[n].B)))),
             ns[n].B, X,
             np_dot(np_T(FreshValue(ns, ns[n].A)), g))

\* C2: chain-rule additivity.  The gradient a binary node returns for a node
\* X below it is the sum of the contributions of every operand path to X;
\* in a DAG of MatAdd nodes over leaves of one shape it is the upstream
\* gradient (all ones when None was passed) times the number of paths to X.
C2_ChainRuleAdditivity ==
    (call = "grad" /\ last.args[2] \in Descendants(nodes, last.args[1])) =>
        /\ IsAddDag(nodes, last.args[1]) =>
              last.ret = Scaled(IF last.args[3] = ArrNone
                                THEN np_ones(shape(nodes, last.args[1], FALSE).v)
                                ELSE last.args[3],
                                NumPaths(nodes, last.args[1], last.args[2]))
        /\ (last.args[3] # ArrNone /\ nodes[last.args[2]].op = "Leaf") =>
              last.ret = PathSum(nodes, last.args[1], last.args[2], last.args[3])

\* C2's case: a leaf reached along three or more paths of a MatAdd DAG, with
\* an upstream gradient that is not constant, and the gradient was returned
C2_Witness ==
    /\ call = "grad"
    /\ IsAddDag(nodes, last.args[1])
    /\ nodes[last.args[2]].op = "Leaf"
    /\ NumPaths(nodes, last.args[1], last.args[2]) >= 3
    /\ last.args[3] = Ramp(nodes[last.args[2]].shp)
    /\ last.ret.tag = "ok"
    /\ last.ret # last.args[3]

(***************************************************************************)
(* SpecBroadcast: sums over leaves of three shapes, one of them of lower   *)
(* rank, with MatAdd's local gradients requested for both operands, the    *)
(* upstream gradient an array or None.                                     *)
(***************************************************************************)
BroadcastMaxNodes == 3

BroadcastShapes == {<<2>>, <<1, 2>>, <<2, 2>>}

NextBroadcast ==
    \/ \E s \in BroadcastShapes : NewLeaf(s, BroadcastMaxNodes)
    \/ \E a, b \in Ids(nodes) : NewMatAdd(<<a, b>>, BroadcastMaxNodes)
    \/ \E n \in Ids(nodes) : \E g \in OutGrads(n) \cup {ArrNone} : CallLocalGradA(n, g)
    \/ \E n \in Ids(nodes) : \E g \in OutGrads(n) \cup {ArrNone} : CallLocalGradB(n, g)

SpecBroadcast == Init /\ [][NextBroadcast]_vars

\* the index in an operand of shape s of the element that broadcasting places
\* at the multi-index idx of the result
ProjectIndex(idx, s) ==
    [i \in 1..Len(s) |-> IF s[i] = 1 THEN 0 ELSE idx[i + Len(idx) - Len(s)]]

\* g summed over the axes broadcasting expanded for an operand of shape s:
\* each element of the result is the sum of the elements of g it was copied to
BroadcastAdjoint(g, s) ==
    Arr(s, [f \in 1..Prod(s) |->
        SumSeq([j \in 1..Prod(g.shape) |->
            IF Ravel(ProjectIndex(Unravel(j - 1, g.shape), s), s) = f - 1
            THEN g.data[j] ELSE 0])])

\* the operand of the MatAdd n that the method called takes the gradient for
SideOperand(ns, n, method) == IF method = "local_grad_A" THEN ns[n].A ELSE ns[n].B

\* C5: broadcast adjoint.  For an upstream gradient shaped like the broadcast
\* result, MatAdd's local gradient for an operand is the upstream gradient
\* itself when the operand has that shape, and otherwise the upstream
\* gradient summed over the axes broadcasting expanded, in the operand's shape.
C5_BroadcastAdjoint ==
    (/\ call \in {"local_grad_A", "local_grad_B"}
     /\ nodes[SideOperand(nodes, last.args[1], call)].op = "Leaf"
     /\ Ok(last.args[2].shape) = shape(nodes, last.args[1], FALSE)) =>
        last.ret = IF nodes[SideOperand(nodes, last.args[1], call)].shp
                      = last.args[2].shape
                   THEN last.args[2]
                   ELSE BroadcastAdjoint(last.args[2],
                            nodes[SideOperand(nodes, last.args[1], call)].shp)

(***************************************************************************)
(* SpecGrad: graphs of all five operations over leaves of two shapes, and  *)
(* the gradient of an operation requested for any node of the arena, with  *)
(* grad, with compute_grad directly, or the local gradient of a unary      *)
(* operation alone.                                                        *)
(***************************************************************************)
GradMaxNodes == 3

GradShapes == {<<2, 2>>, <<3, 2>>}

GradAxis == {None, <<0>>}

GradNew == {<<4>>, <<6>>}

NextGrad ==
    \/ \E s \in GradShapes : NewLeaf(s, GradMaxNodes)
    \/ \E a, b \in Ids(nodes) : NewMatMult(<<a, b>>, GradMaxNodes)
    \/ \E a \in Ids(nodes), axis \in GradAxis : NewMatSum(a, axis, GradMaxNodes)
    \/ \E a, b \in Ids(nodes) : NewMatAdd(<<a, b>>, GradMaxNodes)
    \/ \E a \in Ids(nodes) : NewTranspose(a, None, GradMaxNodes)
    \/ \E a \in Ids(nodes), s \in GradNew : NewReshape(a, s, GradMaxNodes)
    \/ \E n, other \in Ids(nodes) : \E g \in OutGrads(n) : CallGrad(n, other, g)
    \/ \E n, other \in Ids(nodes) : \E g \in OutGrads(n) : CallComputeGrad(n, other, g)
    \/ \E n \in Ids(nodes) : \E g \in OutGrads(n) \cup {ArrNone} : CallLocalGrad(n, g)

SpecGrad == Init /\ [][NextGrad]_vars

\* np.zeros(s) for the result s of a shape() call
ZerosShaped(s) == IF IsOk(s) THEN np_zeros(s.v) ELSE ArrRaise(s.tag)

\* C3: the gradient of an operation with respect to a node that is neither
\* the operation nor below it is all zeros and has that node's shape().
C3_ZeroGradient ==
    (/\ call = "grad"
     /\ last.args[2] # last.args[1]
     /\ last.args[2] \notin Descendants(nodes, last.args[1])) =>
        last.ret = ZerosShaped(shape(nodes, last.args[2], FALSE))

(***************************************************************************)
(* SpecEval: sums, products and transposes over square leaves, evaluated   *)
(* with value(reset, rng, inputs) under two bindings of the leaves; the    *)
(* other methods that evaluate nodes, compute_value called directly and    *)
(* the local gradients of the binary operations, are called as well.       *)
(***************************************************************************)
EvalMaxNodes == 2

EvalShape == <<2, 2>>

EvalInputs == {None, <<2>>}

NextEval ==
    \/ NewLeaf(EvalShape, EvalMaxNodes)
    \/ \E a, b \in Ids(nodes) : NewMatMult(<<a, b>>, EvalMaxNodes)
    \/ \E a, b \in Ids(nodes) : NewMatAdd(<<a, b>>, EvalMaxNodes)
    \/ \E a \in Ids(nodes) : NewTranspose(a, None, EvalMaxNodes)
    \/ \E n \in Ids(nodes), reset \in BOOLEAN, inputs \in EvalInputs :
          CallValue(n, reset, inputs)
    \/ \E n \in Ids(nodes), reset \in BOOLEAN, inputs \in EvalInputs :
          CallComputeValue(n, reset, inputs)
    \/ \E n \in Ids(nodes) : \E g \in OutGrads(n) \cup {ArrNone} : CallLocalGradA(n, g)
    \/ \E n \in Ids(nodes) : \E g \in OutGrads(n) \cup {ArrNone} : CallLocalGradB(n, g)

SpecEval == Init /\ [][NextEval]_vars

\* the array n evaluates to under inputs when nothing at all is cached
Recomputed(ns, n, inputs) ==
    compute_value(ns, [cache |-> NoCache(ns), evals |-> NoEvals(ns)], n, TRUE, inputs).val

\* C6: cache/reset semantics of value() as the specification describes it.
\* value(reset=false) on a node that holds a cached value returns that value,
\* invokes compute_value on no node and leaves every cache as it was (so any
\* number of such calls in a row return the same value); value(reset=true)
\* invokes the node's compute_value, returns its result and leaves it in the
\* cache, and since every compute_value passes reset on to its operands that
\* result is the one recomputed from the inputs.
C6_CacheReset ==
    call = "value" =>
        /\ (~last.args[2] /\ last.was[last.args[1]] # None) =>
              /\ last.ret = last.was[last.args[1]][1]
              /\ last.evals = NoEvals(nodes)
              /\ cache = last.was
        /\ last.args[2] =>
              /\ last.evals[last.args[1]] >= 1
              /\ last.ret = Recomputed(nodes, last.args[1], last.args[3])
              /\ last.ret.tag = "ok" => cache[last.args[1]] = Some(last.ret)

\* C6's case: value(reset=false) on an operation returned a cached value
\* that the current inputs would not give
C6_Witness ==
    /\ call = "value"
    /\ ~last.args[2]
    /\ IsOperation(nodes, last.args[1])
    /\ last.was[last.args[1]] # None
    /\ last.ret.tag = "ok"
    /\ last.ret # Recomputed(nodes, last.args[1], last.args[3])

\* C10: in one value(reset=true) call every node at or below the root is
\* recomputed exactly once and left cached, and every other node is not
\* recomputed and keeps its cache.
C10_SharedRecomputedOnce ==
    (call = "value" /\ last.args[2] /\ last.ret.tag = "ok") =>
        \A m \in Ids(nodes) :
            IF m = last.args[1] \/ m \in Descendants(nodes, last.args[1])
            THEN last.evals[m] = 1 /\ cache[m] # None
            ELSE last.evals[m] = 0 /\ cache[m] = last.was[m]

====
